---- MODULE Spec2Model ----
(***************************************************************************)
(* Model of the chat Worker (Request Router) and the ChatRoom Durable      *)
(* Object (Session State Holder) of src/proud-firefly-5d44/src/index.ts.   *)
(*                                                                         *)
(* Text (message bodies, replies) is a sequence of characters, so that     *)
(* trim() and the template string of the development reply are computed.  *)
(* A session identifier is a positive integer; identifier 1 is a cookie    *)
(* that a browser already holds when the run starts, with a conversation   *)
(* behind it; the following ones are the values crypto.randomUUID()        *)
(* returns.                                                                *)
(***************************************************************************)
EXTENDS Integers, Sequences, FiniteSets, TLC

\* ----- bounds of the model -----
\* the number of exchanges of the conversation that precedes the run
MaxPrior == 10
\* the number of requests of a run
MaxRequests == 2

\* ----- program constants -----
\* mutant: an odd maximum
MaxHistoryOdd == 2 * 10 - 1
MAX_HISTORY == 20
SYSTEM_PROMPT == <<"You are a concise, helpful assistant. Keep answers short and practical.">>
DevPrefix == <<"DEV MODE (no Workers AI). You said: ">>

\* ----- text -----
\* The strings a message field or an inference result holds: the empty string,
\* white space only, a plain word, a word with white space around it.
Str == {<<>>, <<" ", " ">>, <<"a">>, <<" ", "b", " ">>}

IsSpace(c) == c = " "

RECURSIVE TrimStart(_)
TrimStart(s) ==
  IF s # <<>> /\ IsSpace(Head(s)) THEN TrimStart(Tail(s)) ELSE s

RECURSIVE TrimEnd(_)
TrimEnd(s) ==
  IF s # <<>> /\ IsSpace(s[Len(s)]) THEN TrimEnd(SubSeq(s, 1, Len(s) - 1)) ELSE s

\* String.prototype.trim: whitespace is removed at both ends
Trim(s) == TrimEnd(TrimStart(s))

\* ----- request bodies -----
\* json = FALSE: request.json() throws.  hasMessage = FALSE: body?.message is
\* null or undefined (the body is null, or has no such field).
Bodies ==
  {[json |-> FALSE, hasMessage |-> FALSE, message |-> <<>>],
   [json |-> TRUE, hasMessage |-> FALSE, message |-> <<>>]}
  \cup {[json |-> TRUE, hasMessage |-> TRUE, message |-> s] : s \in Str}

NoBody == [json |-> FALSE, hasMessage |-> FALSE, message |-> <<>>]

\* JSON.stringify({ message })
JsonMessage(message) == [json |-> TRUE, hasMessage |-> TRUE, message |-> message]

\* (body?.message ?? "").toString().trim()
MessageOf(body) == Trim(IF body.hasMessage THEN body.message ELSE <<>>)

\* ----- cookies -----
\* the sessions that exist when the run starts, and every identifier of a run
KnownIds == {1}
Ids == 1..(Cardinality(KnownIds) + MaxRequests)

NoCookie == [kind |-> "absent", id |-> 0]

CookieHeaders(jar) ==
  {NoCookie, [kind |-> "empty", id |-> 0], [kind |-> "malformed", id |-> 0]}
  \cup {[kind |-> "session", id |-> i] : i \in jar}

\* getCookie(req, "session"): null without a session part, the decoded value
\* otherwise; decodeURIComponent throws on a malformed escape.
getCookie(cookie) ==
  CASE cookie.kind = "absent" -> [kind |-> "null", id |-> 0]
    [] cookie.kind = "empty" -> [kind |-> "string", id |-> 0]
    [] cookie.kind = "malformed" -> [kind |-> "throw", id |-> 0]
    [] OTHER -> [kind |-> "string", id |-> cookie.id]

\* !sessionId: null and the empty string are falsy
Falsy(v) == v.kind = "null" \/ (v.kind = "string" /\ v.id = 0)

makeSessionCookie(sessionId) == [kind |-> "session", id |-> sessionId]

NoSetCookie == [kind |-> "absent", id |-> 0]

\* ----- history -----
ChatMessage(role, content) == [role |-> role, content |-> content]

SystemMessage == ChatMessage("system", SYSTEM_PROMPT)

\* mutant: the newest entries are dropped instead of the oldest
TruncateBack(h) == IF Len(h) > MAX_HISTORY THEN SubSeq(h, 1, MAX_HISTORY) ELSE h

RECURSIVE Truncate(_)
\* while (history.length > MAX_HISTORY) history.shift();
Truncate(h) ==
  IF Len(h) > MAX_HISTORY THEN Truncate(Tail(h)) ELSE h

\* history.push(m); while (...) history.shift();
Push(h, m) == Truncate(Append(h, m))

\* the last n entries of h
LastN(h, n) == IF Len(h) > n THEN SubSeq(h, Len(h) - n + 1, Len(h)) ELSE h

\* mutant: the reply does not echo the message
DevReplyFixed(message) == DevPrefix

\* `DEV MODE (no Workers AI). You said: ${message}`
DevReply(message) == DevPrefix \o message

\* ----- responses -----
\* A response of the Worker.  kind: "json" (Response.json), "html", "text",
\* "exception" (fetch threw: the Worker produced no response of its own).
\* cookie is the set-cookie header, NoSetCookie when there is none.
RouterResp(status, kind, error, hasReply, reply, cookie) ==
  [status |-> status, kind |-> kind, error |-> error, hasReply |-> hasReply,
   reply |-> reply, cookie |-> cookie]

NoRouterResp == RouterResp(0, "none", "", FALSE, <<>>, NoSetCookie)

RouterError(status, error) ==
  RouterResp(status, "json", error, FALSE, <<>>, NoSetCookie)

RouterThrew == RouterResp(0, "exception", "", FALSE, <<>>, NoSetCookie)

\* A response of the Durable Object as the Worker sees it.  ct: "json" when
\* the content-type includes application/json; valid: the body parses as JSON;
\* isNull: it parses to null; the other fields are those of the parsed object.
DoResp(status, ct, valid, isNull, hasReply, reply, hasError, error) ==
  [status |-> status, ct |-> ct, valid |-> valid, isNull |-> isNull,
   hasReply |-> hasReply, reply |-> reply, hasError |-> hasError, error |-> error]

NoDoResp == DoResp(0, "none", FALSE, FALSE, FALSE, <<>>, FALSE, "")

\* Response.json({ error, ... }, { status })
DoError(status, error) == DoResp(status, "json", TRUE, FALSE, FALSE, <<>>, TRUE, error)

\* Response.json({ reply })
DoReply(reply) == DoResp(200, "json", TRUE, FALSE, TRUE, reply, FALSE, "")

\* Response.ok
Ok(resp) == resp.status >= 200 /\ resp.status <= 299

\* ----- state -----
VARIABLES
  hasAI,    \* !!env.AI
  storage,  \* per Durable Object: the value stored under "history"
  jar,      \* the session identifiers browsers hold in a cookie
  minted,   \* the number of crypto.randomUUID() calls so far
  started,  \* the number of requests received so far
  rreq,     \* the Worker's requests in progress, per slot
  hreq,     \* the Durable Object's requests in progress, per slot
  log       \* per session: every entry persisted so far, never truncated

vars == <<hasAI, storage, jar, minted, started, rreq, hreq, log>>

\* two requests can be in progress at a time
Slots == {1, 2}

Absent == [present |-> FALSE, history |-> <<>>]
Stored(h) == [present |-> TRUE, history |-> h]

\* ((await this.state.storage.get("history")) as ChatMessage[]) ?? []
LoadHistory(s) == IF storage[s].present THEN storage[s].history ELSE <<>>

\* pc: "await" (awaiting stub.fetch), "done" (the response is returned).
\* body is the request body; once it is validated only its trimmed message is
\* kept (the code reads nothing else of it afterwards).
IdleR ==
  [pc |-> "idle", method |-> "", path |-> "", cookie |-> NoCookie, body |-> NoBody,
   sessionId |-> 0, setCookie |-> NoSetCookie, message |-> <<>>,
   resp |-> NoRouterResp, dispatched |-> 0]

\* aiResult before env.AI.run settles
NoAiResult == [throws |-> FALSE, hasResponse |-> FALSE, response |-> <<>>]

\* pc: "called" (stub.fetch or another caller invoked the object), "load"
\* (awaiting storage.get), "infer" (awaiting env.AI.run), "persist" (awaiting
\* storage.put), "done".  loaded is what storage.get returned; reads, infers
\* and writes count the calls of storage.get, env.AI.run and storage.put.
IdleH ==
  [pc |-> "idle", origin |-> "none", session |-> 0, method |-> "", body |-> NoBody,
   message |-> <<>>, history |-> <<>>, loaded |-> <<>>, messages |-> <<>>,
   aiResult |-> NoAiResult, reply |-> <<>>, resp |-> NoDoResp,
   reads |-> 0, infers |-> 0, writes |-> 0]

\* ----- the ChatRoom's computations -----
\* history.push({ role: "user", content: message }); truncate
WithUser(history, message) == Push(history, ChatMessage("user", message))

\* mutant: no truncation after the assistant turn
WithReplyUntruncated(history, reply) == Append(history, ChatMessage("assistant", reply))

\* history.push({ role: "assistant", content: reply }); truncate
WithReply(history, reply) == Push(history, ChatMessage("assistant", reply))

\* mutant: the list is cut to MAX_HISTORY after the system message is added
MessagesCut(history) == Truncate(<<SystemMessage>> \o history)

\* [{ role: "system", content: SYSTEM_PROMPT }, ...history]
Messages(history) == <<SystemMessage>> \o history

\* mutant: the write starts from the value stored now, not from the one loaded
PutValueReread(h) ==
  LastN(storage[h.session].history
          \o <<ChatMessage("user", h.message), ChatMessage("assistant", h.reply)>>, 20)

\* mutant: the history is written before the reply is pushed
PutValueNoReply(h) == WithUser(h.loaded, h.message)

\* mutant: the list sent to inference is persisted
PutMessages(h) == h.messages

\* the value handed to storage.put("history", ...)
PutValue(h) == h.history

\* What env.AI.run can do: throw, or return a result whose response is absent
\* or a string.
AiResults ==
  {[throws |-> TRUE, hasResponse |-> FALSE, response |-> <<>>],
   [throws |-> FALSE, hasResponse |-> FALSE, response |-> <<>>]}
  \cup {[throws |-> FALSE, hasResponse |-> TRUE, response |-> s] : s \in Str}

\* (aiResult?.response ?? "").toString().trim()
ReplyOf(aiResult) == Trim(IF aiResult.hasResponse THEN aiResult.response ELSE <<>>)

\* ----- the state the model starts in -----
\* Earlier conversations: the k-th exchange of a session that existed before.
PriorMsg(k) == IF k % 2 = 1 THEN <<"a">> ELSE <<"b">>
PriorReply(k, ai) == IF ai THEN PriorMsg(k + 1) ELSE DevReply(PriorMsg(k))

RECURSIVE PriorHistory(_, _)
PriorHistory(n, ai) ==
  IF n = 0 THEN <<>>
  ELSE WithReply(WithUser(PriorHistory(n - 1, ai), PriorMsg(n)), PriorReply(n, ai))

\* the known session's history is one exchange short of full, or full
PriorCounts == {MaxPrior - 1, MaxPrior}

Init ==
  /\ hasAI \in BOOLEAN
  /\ \E prior \in [KnownIds -> PriorCounts] :
       /\ storage = [s \in Ids |->
            IF s \in KnownIds /\ prior[s] > 0
            THEN Stored(PriorHistory(prior[s], hasAI)) ELSE Absent]
       /\ log = [s \in Ids |->
            IF s \in KnownIds THEN PriorHistory(prior[s], hasAI) ELSE <<>>]
  /\ jar = KnownIds
  /\ minted = 0
  /\ started = 0
  /\ rreq = [i \in Slots |-> IdleR]
  /\ hreq = [i \in Slots |-> IdleH]

\* ----- the Worker: export default { fetch } -----
Free(i) == rreq[i].pc = "idle" /\ hreq[i].pc = "idle"

\* a finished request whose response has not left yet
Finished(i) == rreq[i].pc = "done" \/ (hreq[i].pc = "done" /\ hreq[i].origin = "direct")

\* the Durable Object answered and the Worker has not yet resumed
Answering(i) == rreq[i].pc = "await" /\ hreq[i].pc = "done"

\* A handler's return, the resumption of its caller and the departure of the
\* response are one event for every other request: nothing else happens in
\* between (these steps touch the request's own variables only).
Quiet == \A j \in Slots : ~Finished(j) /\ ~Answering(j)

\* a new request takes the first free slot
Accept(i) ==
  /\ Quiet
  /\ started < MaxRequests
  /\ Free(i)
  /\ \A j \in Slots : j < i => ~Free(j)
  /\ started' = started + 1

\* mutant: crypto.randomUUID() returns one value again and again
RandomUUIDRepeated == Cardinality(KnownIds) + 1

\* crypto.randomUUID(): a value no session has had
RandomUUID == Cardinality(KnownIds) + minted + 1

Request(method, path, cookie, body) ==
  [IdleR EXCEPT !.method = method, !.path = path, !.cookie = cookie, !.body = body]

\* mutant: the health check asks the Durable Object of session 1
RouterHealthPing(i) ==
  /\ Accept(i)
  /\ rreq' = [rreq EXCEPT ![i] =
       [Request("GET", "/health", NoCookie, NoBody) EXCEPT
          !.pc = "await", !.sessionId = 1, !.dispatched = 1]]
  /\ hreq' = [hreq EXCEPT ![i] =
       [IdleH EXCEPT !.pc = "called", !.origin = "router", !.session = 1,
                     !.method = "GET"]]
  /\ UNCHANGED <<hasAI, storage, jar, minted, log>>

\* GET /health
RouterHealth(i) ==
  /\ Accept(i)
  /\ rreq' = [rreq EXCEPT ![i] =
       [Request("GET", "/health", NoCookie, NoBody) EXCEPT
          !.pc = "done",
          !.resp = RouterResp(200, "json", "", FALSE, <<>>, NoSetCookie)]]
  /\ UNCHANGED <<hasAI, storage, jar, minted, hreq, log>>

\* the set-cookie header of GET /
RootCookie(sessionId, sid) ==
  IF Falsy(sessionId) THEN makeSessionCookie(sid) ELSE NoSetCookie

\* GET /
RouterRoot(i, cookie) ==
  /\ Accept(i)
  /\ LET sessionId == getCookie(cookie)
         req == Request("GET", "/", cookie, NoBody)
     IN IF sessionId.kind = "throw"
        THEN /\ rreq' = [rreq EXCEPT ![i] = [req EXCEPT !.pc = "done", !.resp = RouterThrew]]
             /\ UNCHANGED minted
        ELSE /\ rreq' = [rreq EXCEPT ![i] =
                  [req EXCEPT
                     !.pc = "done",
                     !.resp = RouterResp(200, "html", "", FALSE, <<>>,
                                         RootCookie(sessionId, RandomUUID))]]
             /\ minted' = IF Falsy(sessionId) THEN minted + 1 ELSE minted
  /\ UNCHANGED <<hasAI, storage, jar, hreq, log>>

\* any other method or path
OtherRoutes ==
  {<<"GET", "/api/chat">>, <<"POST", "/other">>}

RouterNotFound(i, route) ==
  /\ Accept(i)
  /\ rreq' = [rreq EXCEPT ![i] =
       [Request(route[1], route[2], NoCookie, NoBody) EXCEPT
          !.pc = "done",
          !.resp = RouterResp(404, "text", "", FALSE, <<>>, NoSetCookie)]]
  /\ UNCHANGED <<hasAI, storage, jar, minted, hreq, log>>

\* mutant: a new session for every request
ChatSessionNew(sessionId, sid) == sid

\* mutant: the cookie is planned whether or not the request had one
ChatCookieAlways(sessionId, sid) == makeSessionCookie(sid)

\* mutant: every name resolves to one Durable Object
idFromNameShared(sessionId) == 1

\* POST /api/chat, lines 145-152: the session identifier and the planned cookie
ChatSession(sessionId, sid) == IF Falsy(sessionId) THEN sid ELSE sessionId.id

\* lines 149-152
ChatCookie(sessionId, sid) ==
  IF Falsy(sessionId) THEN makeSessionCookie(sid) ELSE NoSetCookie

\* env.CHATROOMS.idFromName(sessionId): one Durable Object per name
idFromName(sessionId) == sessionId

Call(session, method, body, origin) ==
  [IdleH EXCEPT !.pc = "called", !.origin = origin, !.session = session,
                !.method = method, !.body = body]

\* POST /api/chat up to the call of stub.fetch
RouterChat(i, cookie, body) ==
  /\ Accept(i)
  /\ LET sessionId == getCookie(cookie)
         sid == ChatSession(sessionId, RandomUUID)
         req == [Request("POST", "/api/chat", cookie, body) EXCEPT
                   !.sessionId = sid,
                   !.setCookie = ChatCookie(sessionId, RandomUUID)]
         message == MessageOf(body)
     IN IF sessionId.kind = "throw"
        THEN /\ rreq' = [rreq EXCEPT ![i] =
                  [Request("POST", "/api/chat", cookie, body) EXCEPT
                     !.pc = "done", !.resp = RouterThrew]]
             /\ UNCHANGED <<minted, hreq>>
        ELSE /\ minted' = IF Falsy(sessionId) THEN minted + 1 ELSE minted
             /\ IF ~body.json
                THEN /\ rreq' = [rreq EXCEPT ![i] =
                          [req EXCEPT !.pc = "done",
                                      !.resp = RouterError(400, "Invalid JSON")]]
                     /\ UNCHANGED hreq
                ELSE IF message = <<>>
                THEN /\ rreq' = [rreq EXCEPT ![i] =
                          [req EXCEPT !.pc = "done",
                                      !.resp = RouterError(400, "Missing message")]]
                     /\ UNCHANGED hreq
                ELSE /\ rreq' = [rreq EXCEPT ![i] =
                          [req EXCEPT !.pc = "await", !.body = JsonMessage(message),
                                      !.message = message, !.dispatched = req.dispatched + 1]]
                     /\ hreq' = [hreq EXCEPT ![i] =
                          Call(idFromName(sid), "POST", JsonMessage(message), "router")]
  /\ UNCHANGED <<hasAI, storage, jar, log>>

\* stub.fetch throws: the request never reaches the Durable Object
RouterDispatchFail(i) ==
  /\ Quiet
  /\ rreq[i].pc = "await"
  /\ hreq[i].pc = "called"
  /\ rreq' = [rreq EXCEPT ![i].pc = "done",
                          ![i].resp = RouterError(502, "Failed to reach Durable Object")]
  /\ hreq' = [hreq EXCEPT ![i] = IdleH]
  /\ UNCHANGED <<hasAI, storage, jar, minted, started, log>>

\* { error: "Durable Object error", ...parsed }: a field of parsed wins
MergedError(doResp) == IF doResp.hasError THEN doResp.error ELSE "Durable Object error"

\* mutant: every error of the Durable Object is answered 502
TranslateFlat(doResp, setCookie) ==
  IF doResp.ct # "json" \/ ~doResp.valid \/ ~Ok(doResp)
  THEN RouterError(502, MergedError(doResp))
  ELSE RouterResp(200, "json", "", doResp.hasReply, doResp.reply, setCookie)

\* lines 181-214: the Worker's answer to the Durable Object's response
Translate(doResp, setCookie) ==
  IF doResp.ct # "json"
  THEN RouterError(502, "DO returned non-JSON response")
  ELSE IF ~doResp.valid
  THEN RouterError(502, "DO returned invalid JSON")
  ELSE IF ~Ok(doResp)
  THEN RouterResp(doResp.status, "json", MergedError(doResp), doResp.hasReply,
                  doResp.reply, NoSetCookie)
  ELSE IF doResp.isNull
  THEN RouterThrew
  ELSE RouterResp(200, "json", "", doResp.hasReply, doResp.reply, setCookie)

\* stub.fetch resolves
RouterTranslate(i) ==
  /\ Answering(i)
  /\ rreq' = [rreq EXCEPT ![i].pc = "done",
                          ![i].resp = Translate(hreq[i].resp, rreq[i].setCookie)]
  /\ UNCHANGED <<hasAI, storage, jar, minted, started, hreq, log>>

\* The response leaves: the browser keeps the cookie it was sent.
Retire(i) ==
  /\ Finished(i)
  /\ jar' = IF rreq[i].resp.cookie.kind = "session"
            THEN jar \cup {rreq[i].resp.cookie.id} ELSE jar
  /\ rreq' = [rreq EXCEPT ![i] = IdleR]
  /\ hreq' = [hreq EXCEPT ![i] = IdleH]
  /\ UNCHANGED <<hasAI, storage, minted, started, log>>

\* ----- the Durable Object: ChatRoom.fetch -----
\* a request of another caller that holds the CHATROOMS binding
DirectCalls == {<<"GET", NoBody>>} \cup {<<"POST", b>> : b \in Bodies}

HolderDirect(i, s, method, body) ==
  /\ Accept(i)
  /\ hreq' = [hreq EXCEPT ![i] = Call(s, method, body, "direct")]
  /\ UNCHANGED <<hasAI, storage, jar, minted, rreq, log>>

Active(j) == hreq[j].pc \in {"load", "infer", "persist"}

Busy(i) == \E j \in Slots : j # i /\ Active(j) /\ hreq[j].session = hreq[i].session

\* lines 226-238
Receive(h) ==
  IF h.method # "POST"
  THEN [h EXCEPT !.pc = "done", !.resp = DoError(405, "Method not allowed")]
  ELSE IF ~h.body.json
  THEN [h EXCEPT !.pc = "done", !.resp = DoError(400, "Invalid JSON")]
  ELSE IF MessageOf(h.body) = <<>>
  THEN [h EXCEPT !.pc = "done", !.resp = DoError(400, "Missing message")]
  ELSE [h EXCEPT !.pc = "load", !.body = JsonMessage(MessageOf(h.body)),
                 !.message = MessageOf(h.body)]

\* the request is delivered while no other request of the object is in progress
HolderReceive(i) ==
  /\ Quiet
  /\ hreq[i].pc = "called"
  /\ ~Busy(i)
  /\ hreq' = [hreq EXCEPT ![i] = Receive(hreq[i])]
  /\ UNCHANGED <<hasAI, storage, jar, minted, started, rreq, log>>

\* the request is delivered while another one awaits storage or inference
HolderReceiveConcurrent(i) ==
  /\ Quiet
  /\ hreq[i].pc = "called"
  /\ Busy(i)
  /\ hreq' = [hreq EXCEPT ![i] = Receive(hreq[i])]
  /\ UNCHANGED <<hasAI, storage, jar, minted, started, rreq, log>>

\* mutant: the exception leaves ChatRoom.fetch, no response is made
Propagated == NoDoResp

\* lines 281-286: the catch of ChatRoom.fetch
Unhandled == DoError(500, "Unhandled DO exception")

\* lines 240-250: storage.get resolved with `stored`
Loaded(h, stored, ai) ==
  LET history == WithUser(stored, h.message)
      g == [h EXCEPT !.loaded = stored, !.history = history,
                     !.messages = Messages(history), !.reads = h.reads + 1]
  IN IF ~ai
     THEN [g EXCEPT !.pc = "persist", !.reply = DevReply(h.message),
                    !.history = WithReply(history, DevReply(h.message))]
     ELSE [g EXCEPT !.pc = "infer", !.infers = h.infers + 1]

HolderLoad(i) ==
  /\ Quiet
  /\ hreq[i].pc = "load"
  /\ hreq' = [hreq EXCEPT ![i] = Loaded(hreq[i], LoadHistory(hreq[i].session), hasAI)]
  /\ UNCHANGED <<hasAI, storage, jar, minted, started, rreq, log>>

\* storage.get rejects
HolderLoadFail(i) ==
  /\ Quiet
  /\ hreq[i].pc = "load"
  /\ hreq' = [hreq EXCEPT ![i].pc = "done", ![i].reads = @ + 1, ![i].resp = Unhandled]
  /\ UNCHANGED <<hasAI, storage, jar, minted, started, rreq, log>>

\* mutant: the reply is not checked for emptiness
InferredUnchecked(h, aiResult) ==
  IF aiResult.throws
  THEN [h EXCEPT !.pc = "done", !.aiResult = aiResult,
                 !.resp = DoError(502, "Workers AI call failed")]
  ELSE [h EXCEPT !.pc = "persist", !.aiResult = aiResult, !.reply = ReplyOf(aiResult),
                 !.history = WithReply(h.history, ReplyOf(aiResult))]

\* mutant: a throwing inference call is made a second time
InferredRetry(h, aiResult) ==
  IF aiResult.throws /\ h.infers < 2
  THEN [h EXCEPT !.infers = h.infers + 1]
  ELSE IF aiResult.throws \/ ReplyOf(aiResult) = <<>>
  THEN [h EXCEPT !.pc = "done", !.aiResult = aiResult,
                 !.resp = DoError(502, "Workers AI call failed")]
  ELSE [h EXCEPT !.pc = "persist", !.aiResult = aiResult, !.reply = ReplyOf(aiResult),
                 !.history = WithReply(h.history, ReplyOf(aiResult))]

\* lines 252-276: env.AI.run settled with aiResult
Inferred(h, aiResult) ==
  IF aiResult.throws
  THEN [h EXCEPT !.pc = "done", !.aiResult = aiResult,
                 !.resp = DoError(502, "Workers AI call failed")]
  ELSE IF ReplyOf(aiResult) = <<>>
  THEN [h EXCEPT !.pc = "done", !.aiResult = aiResult,
                 !.resp = DoError(502, "Empty AI response")]
  ELSE [h EXCEPT !.pc = "persist", !.aiResult = aiResult, !.reply = ReplyOf(aiResult),
                 !.history = WithReply(h.history, ReplyOf(aiResult))]

HolderInfer(i, aiResult) ==
  /\ Quiet
  /\ hreq[i].pc = "infer"
  /\ hreq' = [hreq EXCEPT ![i] = Inferred(hreq[i], aiResult)]
  /\ UNCHANGED <<hasAI, storage, jar, minted, started, rreq, log>>

\* lines 278-280: storage.put resolved
HolderPersist(i) ==
  /\ Quiet
  /\ hreq[i].pc = "persist"
  /\ storage' = [storage EXCEPT ![hreq[i].session] = Stored(PutValue(hreq[i]))]
  /\ log' = [log EXCEPT ![hreq[i].session] =
       @ \o <<ChatMessage("user", hreq[i].message),
              ChatMessage("assistant", hreq[i].reply)>>]
  /\ hreq' = [hreq EXCEPT ![i].pc = "done", ![i].writes = @ + 1,
                          ![i].resp = DoReply(hreq[i].reply)]
  /\ UNCHANGED <<hasAI, jar, minted, started, rreq>>

\* storage.put rejects: nothing is stored
HolderPersistFail(i) ==
  /\ Quiet
  /\ hreq[i].pc = "persist"
  /\ hreq' = [hreq EXCEPT ![i].pc = "done", ![i].writes = @ + 1, ![i].resp = Unhandled]
  /\ UNCHANGED <<hasAI, storage, jar, minted, started, rreq, log>>

\* ----- the CHATROOMS binding seen as an interface -----
\* Responses stub.fetch can resolve with when the binding is not served by
\* ChatRoom: the Worker's translation handles any response.
StubResponses ==
  {DoResp(500, "other", FALSE, FALSE, FALSE, <<>>, FALSE, ""),
   DoResp(200, "json", FALSE, FALSE, FALSE, <<>>, FALSE, ""),
   DoResp(200, "json", TRUE, TRUE, FALSE, <<>>, FALSE, ""),
   DoResp(404, "json", TRUE, FALSE, FALSE, <<>>, FALSE, ""),
   DoResp(503, "json", TRUE, FALSE, FALSE, <<>>, TRUE, "Overloaded"),
   DoResp(201, "json", TRUE, FALSE, TRUE, <<"a">>, FALSE, "")}

StubAnswer(i, resp) ==
  /\ Quiet
  /\ rreq[i].pc = "await"
  /\ hreq[i].pc = "called"
  /\ hreq' = [hreq EXCEPT ![i].pc = "done", ![i].origin = "stub", ![i].resp = resp]
  /\ UNCHANGED <<hasAI, storage, jar, minted, started, rreq, log>>

\* ----- specifications -----
Next ==
  \/ \E i \in Slots : RouterHealth(i)
  \/ \E i \in Slots, c \in CookieHeaders(jar) : RouterRoot(i, c)
  \/ \E i \in Slots, r \in OtherRoutes : RouterNotFound(i, r)
  \/ \E i \in Slots, c \in CookieHeaders(jar), b \in Bodies : RouterChat(i, c, b)
  \/ \E i \in Slots : RouterDispatchFail(i)
  \/ \E i \in Slots : RouterTranslate(i)
  \/ \E i \in Slots : Retire(i)
  \/ \E i \in Slots, s \in KnownIds, c \in DirectCalls : HolderDirect(i, s, c[1], c[2])
  \/ \E i \in Slots : HolderReceive(i)
  \/ \E i \in Slots : HolderLoad(i)
  \/ \E i \in Slots : HolderLoadFail(i)
  \/ \E i \in Slots, a \in AiResults : HolderInfer(i, a)
  \/ \E i \in Slots : HolderPersist(i)
  \/ \E i \in Slots : HolderPersistFail(i)

\* requests to one Durable Object are handled one at a time
Spec == Init /\ [][Next]_vars

\* requests to one Durable Object may interleave at its awaits
NextConcurrent == Next \/ \E i \in Slots : HolderReceiveConcurrent(i)

SpecConcurrent == Init /\ [][NextConcurrent]_vars

\* the Worker in front of any implementation of the binding
NextStub == Next \/ \E i \in Slots, r \in StubResponses : StubAnswer(i, r)

SpecStub == Init /\ [][NextStub]_vars

\* ----- properties -----
\* the history stored for session s (empty when nothing is stored)
Hist(s) == storage[s].history

\* text without a character other than white space
Blank(s) == \A k \in 1..Len(s) : s[k] = " "

User(m) == [role |-> "user", content |-> m]
Assistant(r) == [role |-> "assistant", content |-> r]

\* request i of the Durable Object has just answered
Answered(i) == hreq[i].pc = "done"

\* the step in which storage.put of request i resolves
PersistStep(i) == hreq[i].pc = "persist" /\ hreq'[i].pc = "done" /\ hreq'[i].resp.status = 200

\* C1: with the requests of each Durable Object handled one at a time, the
\* history stored for every session has at most 20 entries in every reachable
\* state.
C1_HistoryBounded == \A s \in Ids : Len(Hist(s)) <= 20

\* a request has just persisted a history from which old entries were dropped
C1_Witness ==
  \E i \in Slots :
    /\ Answered(i) /\ hreq[i].resp.status = 200
    /\ Len(log[hreq[i].session]) > 20
    /\ Len(Hist(hreq[i].session)) = 20

\* the step that persists an exchange stores the last 20 entries of H, M, R
C2_Step ==
  \A i \in Slots :
    PersistStep(i) =>
      LET s == hreq[i].session
          H == Hist(s)
          all == H \o <<User(hreq[i].message), Assistant(hreq'[i].resp.reply)>>
      IN /\ hreq[i].loaded = H
         /\ storage'[s].present
         /\ storage'[s].history = LastN(all, 20)

\* the stored history is the tail of everything persisted
C2_Tail == \A s \in Ids : Hist(s) = LastN(log[s], 20)

\* C2: a request with message M that succeeds with reply R on a stored history
\* H leaves stored the last 20 entries of H, {user, M}, {assistant, R}; so the
\* stored history is always the last 20 entries of everything persisted, in
\* the order of the requests.
C2_Exchange == []C2_Tail /\ [][C2_Step]_vars

\* two requests of this run were persisted in a session whose history is full
C2_Witness ==
  \E i \in Slots :
    /\ Answered(i) /\ hreq[i].resp.status = 200
    /\ Len(log[hreq[i].session]) = 22
    /\ Len(Hist(hreq[i].session)) = 20
    /\ Hist(hreq[i].session)[17] = User(<<"b">>)
    /\ Hist(hreq[i].session)[18] = Assistant(<<"b">>)
    /\ Hist(hreq[i].session)[19] = User(<<"a">>)
    /\ Hist(hreq[i].session)[20] = Assistant(<<"a">>)
    /\ hreq[i].message = <<"a">> /\ hreq[i].resp.reply = <<"a">>

\* C3: no stored history holds an entry of role system; the priming message is
\* the first element of the list passed to inference and appears nowhere else.
C3_NoSystemStored ==
  /\ \A s \in Ids : \A k \in 1..Len(Hist(s)) : Hist(s)[k].role # "system"
  /\ \A i \in Slots :
       /\ \A k \in 1..Len(hreq[i].history) : hreq[i].history[k].role # "system"
       /\ hreq[i].infers = 1 =>
            /\ hreq[i].messages[1] = [role |-> "system", content |-> SYSTEM_PROMPT]
            /\ \A k \in 2..Len(hreq[i].messages) : hreq[i].messages[k].role # "system"

\* a request persisted its history after an inference call on a full history
C3_Witness ==
  \E i \in Slots :
    /\ Answered(i) /\ hreq[i].resp.status = 200
    /\ hreq[i].infers = 1
    /\ Len(hreq[i].messages) = 21
    /\ Hist(hreq[i].session) = hreq[i].history

\* the inference call of a request failed: it threw, or its reply is blank
GenerationFailed(a) == a.throws \/ ~a.hasResponse \/ Blank(a.response)

\* a failed generation answers 502 and writes nothing; only a succeeded one writes
C4_Step ==
  /\ \A i \in Slots :
       (hreq[i].pc = "infer" /\ hreq'[i].pc # "infer"
          /\ GenerationFailed(hreq'[i].aiResult)) =>
         /\ hreq'[i].pc = "done"
         /\ hreq'[i].resp.status = 502
         /\ hreq'[i].resp.hasError
         /\ hreq'[i].writes = 0
         /\ storage' = storage
         /\ Hist(hreq[i].session) = hreq[i].loaded
  /\ storage' # storage =>
       \E i \in Slots :
         /\ hreq[i].pc = "persist" /\ hreq'[i].writes = 1
         /\ \A s \in Ids : s # hreq[i].session => storage'[s] = storage[s]
         /\ IF hreq[i].infers = 1
            THEN ~GenerationFailed(hreq[i].aiResult)
            ELSE ~hasAI

\* C4: when the inference call throws or returns a blank reply the answer is 502
\* with an error field and the stored history is what it was before the
\* request; storage is written only by a request whose generation succeeded.
C4_FailureKeepsHistory == [][C4_Step]_vars

\* a blank reply was answered 502 in a session that has a stored history
C4_Witness ==
  \E i \in Slots :
    /\ Answered(i) /\ hreq[i].resp.status = 502
    /\ hreq[i].aiResult.hasResponse /\ hreq[i].aiResult.response = <<" ", " ">>
    /\ Len(Hist(hreq[i].session)) = 20
    /\ Hist(hreq[i].session) = hreq[i].loaded

\* the message field of a body is missing, empty or white space only
BlankMessage(body) == body.json /\ (~body.hasMessage \/ Blank(body.message))

IsChat(r) == r.method = "POST" /\ r.path = "/api/chat"

\* C5: a POST /api/chat whose message is missing, empty or blank is answered 400
\* without invoking the Durable Object, and such a request of the Durable
\* Object is answered 400 without a storage read, a storage write or an
\* inference call.
C5_BlankRejected ==
  \A i \in Slots :
    /\ (rreq[i].pc = "done" /\ IsChat(rreq[i]) /\ BlankMessage(rreq[i].body)) =>
         /\ rreq[i].resp.status = 400
         /\ rreq[i].dispatched = 0
         /\ hreq[i].pc = "idle"
    /\ (Answered(i) /\ hreq[i].method = "POST" /\ BlankMessage(hreq[i].body)) =>
         /\ hreq[i].resp.status = 400
         /\ hreq[i].reads = 0 /\ hreq[i].infers = 0 /\ hreq[i].writes = 0

\* the request carries a session cookie with an identifier
HasSession(r) == r.cookie.kind = "session"
\* the request carries no session cookie, or one without a value
NoSession(r) == r.cookie.kind \in {"absent", "empty"}

Contains(seq, a, b) == \E k \in 1..(Len(seq) - 1) : seq[k] = a /\ seq[k + 1] = b

\* C6: GET / without a session identifier in the cookie sets a session cookie
\* with a fresh identifier, GET / with one sets none; POST /api/chat requests
\* with the same session cookie reach the same Durable Object, whose loaded
\* history is the last 20 entries of everything persisted for that cookie.
C6_SameCookieSameHistory ==
  \A i \in Slots :
    /\ (rreq[i].pc = "done" /\ rreq[i].method = "GET" /\ rreq[i].path = "/") =>
         /\ NoSession(rreq[i]) =>
              /\ rreq[i].resp.cookie.kind = "session"
              /\ rreq[i].resp.cookie.id \notin jar
              /\ ~storage[rreq[i].resp.cookie.id].present
              /\ \A j \in Slots : /\ rreq[j].sessionId # rreq[i].resp.cookie.id
                                  /\ hreq[j].session # rreq[i].resp.cookie.id
         /\ HasSession(rreq[i]) => rreq[i].resp.cookie = NoSetCookie
    /\ (IsChat(rreq[i]) /\ HasSession(rreq[i]) /\ rreq[i].dispatched = 1) =>
         /\ rreq[i].sessionId = rreq[i].cookie.id
         /\ hreq[i].pc # "idle" => hreq[i].session = rreq[i].cookie.id
         /\ hreq[i].pc \in {"infer", "persist"} =>
              hreq[i].loaded = LastN(log[rreq[i].cookie.id], 20)
         /\ (rreq[i].pc = "done" /\ rreq[i].resp.status = 200) =>
              Contains(log[rreq[i].cookie.id], User(rreq[i].message),
                       Assistant(rreq[i].resp.reply))

\* a request reusing the cookie a response of this run set has loaded the
\* exchange of the earlier request
C6_Witness ==
  \E i \in Slots :
    /\ IsChat(rreq[i]) /\ HasSession(rreq[i])
    /\ rreq[i].cookie.id \notin KnownIds
    /\ hreq[i].pc = "infer"
    /\ Len(hreq[i].loaded) = 2

\* the session a request of the Durable Object was made for
SessionOf(i) == IF hreq[i].origin = "direct" THEN hreq[i].session ELSE rreq[i].sessionId

\* a step of a request touches the stored history of its own session only
C7_Step ==
  /\ \A i \in Slots :
       (hreq[i].pc \in {"called", "load", "infer", "persist"} /\ hreq'[i] # hreq[i]) =>
         /\ \A t \in Ids : t # SessionOf(i) => storage'[t] = storage[t]
         /\ (hreq[i].pc = "load" /\ hreq'[i].pc # "done") =>
              hreq'[i].loaded = storage[SessionOf(i)].history
  /\ storage' # storage => \E i \in Slots : PersistStep(i)

\* C7: a chat request handled for session s reads and writes only the history
\* stored for s; the history of every other session is unchanged by it.
C7_OwnSessionOnly == [][C7_Step]_vars

\* a request of the Worker persisted while another session has a history
C7_Witness ==
  \E i \in Slots, t \in Ids :
    /\ Answered(i) /\ hreq[i].origin = "router" /\ hreq[i].resp.status = 200
    /\ t # rreq[i].sessionId
    /\ storage[t].present /\ storage[rreq[i].sessionId].present

\* request i of the Durable Object carries a non-blank message
NonBlank(i) ==
  /\ hreq[i].method = "POST"
  /\ hreq[i].body.json /\ hreq[i].body.hasMessage /\ ~Blank(hreq[i].body.message)

DevText(m) == <<"DEV MODE (no Workers AI). You said: ">> \o m

\* C8 as stated: without an inference collaborator a request with a non-blank
\* message is answered 200 with the echo reply.
C8_Original ==
  \A i \in Slots :
    (~hasAI /\ Answered(i) /\ NonBlank(i)) =>
      /\ hreq[i].infers = 0
      /\ hreq[i].resp.status = 200
      /\ hreq[i].resp.reply = DevText(hreq[i].message)

\* the steps of a request when no inference collaborator is configured
C8_Step ==
  \A i \in Slots :
    (~hasAI /\ NonBlank(i) /\ hreq'[i] # hreq[i]) =>
      /\ hreq'[i].infers = 0
      /\ hreq'[i].pc # "infer"
      /\ (hreq[i].pc \in {"load", "persist"} /\ hreq'[i].pc = "done") =>
           \/ /\ hreq'[i].resp.status = 500
              /\ storage' = storage
           \/ /\ hreq[i].pc = "persist"
              /\ hreq'[i].resp.status = 200
              /\ hreq'[i].resp.reply = DevText(hreq[i].message)
              /\ Len(hreq[i].message) > 0
              /\ storage'[hreq[i].session].history =
                   LastN(Hist(hreq[i].session)
                           \o <<User(hreq[i].message),
                                Assistant(DevText(hreq[i].message))>>, 20)

\* C8 (amended): without an inference collaborator a request with a non-blank
\* message makes no inference call and, unless the storage read or write fails
\* (answered 500, nothing persisted), is answered 200 with the reply
\* "DEV MODE (no Workers AI). You said: " followed by M, and the exchange is
\* persisted like a normal success.
C8_DevEcho == [][C8_Step]_vars

\* the echo of "aa" was persisted at the end of a full history
C8_Witness ==
  \E i \in Slots :
    /\ ~hasAI /\ Answered(i) /\ hreq[i].resp.status = 200
    /\ hreq[i].resp.reply = DevText(<<"b">>)
    /\ Len(Hist(hreq[i].session)) = 20
    /\ Hist(hreq[i].session)[20] = Assistant(DevText(<<"b">>))

\* C9: the Worker's answer to POST /api/chat mirrors the Durable Object's: a
\* non-success status is propagated with the error payload, a failed dispatch
\* or a body that is not JSON is answered 502, and 200 is answered only on a
\* success of the Durable Object, with its reply.
C9_Mirror ==
  \A i \in Slots :
    (rreq[i].pc = "done" /\ rreq[i].dispatched = 1) =>
      LET d == hreq[i].resp
          r == rreq[i].resp
          json == d.ct = "json" /\ d.valid
          success == d.status >= 200 /\ d.status <= 299
      IN /\ hreq[i].pc \in {"idle", "done"}
         /\ hreq[i].pc = "idle" => (r.status = 502 /\ r.kind = "json" /\ r.error # "")
         /\ hreq[i].pc = "done" =>
              /\ ~json => (r.status = 502 /\ r.kind = "json" /\ r.error # "")
              /\ (json /\ ~success) =>
                   /\ r.status = d.status
                   /\ r.kind = "json"
                   /\ r.error # ""
                   /\ d.hasError => r.error = d.error
              /\ r.status = 200 =>
                   /\ json /\ success
                   /\ r.hasReply = d.hasReply
                   /\ r.reply = d.reply

\* a storage failure of the Durable Object reached the client as 500
C9_Witness ==
  \E i \in Slots :
    /\ rreq[i].pc = "done" /\ hreq[i].origin = "router"
    /\ hreq[i].writes = 1
    /\ hreq[i].resp.status = 500
    /\ rreq[i].resp.status = 500
    /\ rreq[i].resp.error = "Unhandled DO exception"

\* C10: the response to POST /api/chat carries a session cookie exactly when
\* the request had no session identifier in its cookie and ended in the 200
\* branch; the cookie then carries the identifier the request was routed by.
C10_CookieOnlyOnNewSuccess ==
  \A i \in Slots :
    (rreq[i].pc = "done" /\ IsChat(rreq[i])) =>
      /\ rreq[i].resp.cookie.kind = "session" <=>
           (NoSession(rreq[i]) /\ rreq[i].resp.status = 200)
      /\ rreq[i].resp.cookie.kind = "session" =>
           /\ rreq[i].resp.cookie.id = rreq[i].sessionId
           /\ hreq[i].session = rreq[i].sessionId
      /\ rreq[i].resp.cookie.kind \in {"session", "absent"}

\* a request without a cookie succeeded and its response sets the cookie
C10_Witness ==
  \E i \in Slots :
    /\ rreq[i].pc = "done" /\ IsChat(rreq[i])
    /\ rreq[i].cookie.kind = "absent"
    /\ rreq[i].resp.status = 200
    /\ rreq[i].resp.cookie.kind = "session"
    /\ storage[rreq[i].resp.cookie.id].present

\* every identifier in use was a cookie before the run or was generated in it
C11_Issued ==
  /\ \A s \in jar : s <= Cardinality(KnownIds) + minted
  /\ \A s \in Ids : storage[s].present => s <= Cardinality(KnownIds) + minted
  /\ \A i \in Slots : /\ rreq[i].sessionId <= Cardinality(KnownIds) + minted
                      /\ hreq[i].session <= Cardinality(KnownIds) + minted

\* a POST /api/chat without a session cookie, whatever its outcome so far
C11_Cookieless ==
  \A i \in Slots :
    (IsChat(rreq[i]) /\ NoSession(rreq[i])) =>
      /\ (rreq[i].pc = "done" /\ rreq[i].resp.status # 200) =>
           rreq[i].resp.cookie = NoSetCookie
      /\ rreq[i].sessionId \notin KnownIds
      /\ \A j \in Slots : j # i =>
           /\ rreq[j].sessionId # rreq[i].sessionId
           /\ hreq[j].session # rreq[i].sessionId
      /\ hreq[i].pc # "idle" => hreq[i].session = rreq[i].sessionId
      /\ hreq[i].loaded = <<>>
      /\ (hreq[i].pc # "done" \/ hreq[i].resp.status # 200) =>
           /\ ~storage[rreq[i].sessionId].present
           /\ log[rreq[i].sessionId] = <<>>
      /\ (hreq[i].pc = "done" /\ hreq[i].resp.status = 200) =>
           log[rreq[i].sessionId] =
             <<User(rreq[i].message), Assistant(hreq[i].resp.reply)>>

\* the step that receives a POST /api/chat without a session cookie
C11_Step ==
  \A i \in Slots :
    (rreq[i].pc = "idle" /\ IsChat(rreq'[i]) /\ NoSession(rreq'[i])) =>
      /\ minted' = minted + 1
      /\ rreq'[i].sessionId > Cardinality(KnownIds) + minted
      /\ rreq'[i].sessionId \notin jar

\* C11: a POST /api/chat without a session cookie that fails is answered
\* without a cookie, and every such request is given an identifier no request
\* had before: it is routed to a Durable Object of its own and loads nothing
\* another request has written.
C11_FreshSessionEachTime == []C11_Issued /\ []C11_Cookieless /\ [][C11_Step]_vars

\* after a request without a cookie persisted its exchange, a second one was
\* routed to another Durable Object, loaded nothing and failed
C11_Witness ==
  \E i \in Slots :
    /\ rreq[i].pc = "done" /\ IsChat(rreq[i]) /\ rreq[i].cookie.kind = "absent"
    /\ rreq[i].resp.status = 502
    /\ rreq[i].resp.cookie = NoSetCookie
    /\ rreq[i].sessionId = 3
    /\ hreq[i].reads = 1 /\ hreq[i].loaded = <<>>
    /\ storage[2].present /\ ~storage[3].present

\* the write of request i replaces the stored value by the value the request
\* loaded plus its own exchange, whatever is stored by then
C12_Step ==
  \A i \in Slots :
    PersistStep(i) =>
      /\ hreq[i].reads = 1
      /\ storage'[hreq[i].session].history =
           LastN(hreq[i].loaded
                   \o <<User(hreq[i].message), Assistant(hreq'[i].resp.reply)>>, 20)
      /\ log'[hreq[i].session] =
           log[hreq[i].session]
             \o <<User(hreq[i].message), Assistant(hreq'[i].resp.reply)>>

\* C12: the read-modify-write of the history is not isolated: storage.put
\* stores what the request loaded plus its own exchange, without looking at
\* what is stored by then, so when two requests of one Durable Object load
\* before either persists the exchange of the first is lost although both are
\* answered 200.
C12_UnconditionalOverwrite == [][C12_Step]_vars

\* Two requests of one session awaited inference at the same time and both
\* were answered 200: the stored history holds the exchange of the second and
\* not that of the first.
C12_Witness ==
  \E i \in Slots :
    LET s == hreq[i].session
        n == Len(log[s])
    IN /\ hasAI /\ Answered(i) /\ hreq[i].resp.status = 200
       /\ hreq[i].infers = 1
       /\ n = 2 * (MaxPrior - 1) + 4
       /\ hreq[i].loaded = SubSeq(log[s], 1, n - 4)
       /\ log[s][n - 3] = User(<<"a">>)
       /\ log[s][n - 1] = User(<<"b">>)
       /\ Hist(s) = LastN(SubSeq(log[s], 1, n - 4) \o SubSeq(log[s], n - 1, n), 20)
       /\ Hist(s) # LastN(log[s], 20)

\* the stored history of session s misses an exchange that was answered 200
LostUpdate(s) == Hist(s) # LastN(log[s], 20)

\* C13 as stated: once requests of one session have interleaved between the
\* load and the write of the history, so that a write replaced another, the
\* stored history has more than 20 entries.
C13_Original ==
  \A i \in Slots :
    (Answered(i) /\ hreq[i].resp.status = 200 /\ LostUpdate(hreq[i].session)) =>
      Len(Hist(hreq[i].session)) > 20

\* C13 (amended): when requests of one session interleave between the load and
\* the write of the history, without lock or version check, every stored
\* history still has at most 20 entries, since each request truncates the list
\* it writes; what the interleaving breaks is the content of the history,
\* which may miss an answered exchange.
C13_BoundedWhenInterleaved ==
  /\ \A s \in Ids : Len(Hist(s)) <= MAX_HISTORY
  /\ \A i \in Slots : hreq[i].pc = "persist" => Len(PutValue(hreq[i])) <= MAX_HISTORY

\* two requests loaded a full history before either wrote; both wrote
C13_Witness ==
  \E i \in Slots :
    /\ Answered(i) /\ hreq[i].resp.status = 200
    /\ Len(hreq[i].loaded) = 20
    /\ Len(log[hreq[i].session]) > 22
    /\ LostUpdate(hreq[i].session)
    /\ Len(Hist(hreq[i].session)) = 20

\* the calls request i of the Durable Object has made so far
Calls(h) == h.reads + h.infers + h.writes

\* how often each collaborator was called, by the answer of the Durable Object
C14_Counts ==
  \A i \in Slots :
    /\ rreq[i].dispatched <= 1
    /\ hreq[i].reads <= 1 /\ hreq[i].infers <= 1 /\ hreq[i].writes <= 1
    /\ (rreq[i].pc = "done" /\ rreq[i].dispatched = 0) => hreq[i].pc = "idle"
    /\ (rreq[i].pc = "done" /\ rreq[i].resp.error = "Failed to reach Durable Object") =>
         hreq[i].pc = "idle"
    /\ Answered(i) =>
         /\ hreq[i].resp.status \in {400, 405} => Calls(hreq[i]) = 0
         /\ hreq[i].resp.status = 502 =>
              hreq[i].reads = 1 /\ hreq[i].infers = 1 /\ hreq[i].writes = 0
         /\ hreq[i].resp.status = 500 =>
              \/ hreq[i].reads = 1 /\ hreq[i].infers = 0 /\ hreq[i].writes = 0
              \/ hreq[i].reads = 1 /\ hreq[i].writes = 1

\* a call is counted once, and a request makes none once it is answered
C14_Step ==
  \A i \in Slots :
    /\ (hreq[i].pc = "done" /\ hreq'[i] # hreq[i]) => hreq'[i] = IdleH
    /\ (rreq[i].pc = "done" /\ <<rreq'[i], hreq'[i]>> # <<rreq[i], hreq[i]>>) =>
         rreq'[i] = IdleR /\ hreq'[i] = IdleH
    /\ hreq'[i].pc # "idle" =>
         /\ hreq'[i].reads \in {hreq[i].reads, hreq[i].reads + 1}
         /\ hreq'[i].infers \in {hreq[i].infers, hreq[i].infers + 1}
         /\ hreq'[i].writes \in {hreq[i].writes, hreq[i].writes + 1}
         /\ rreq'[i].dispatched >= rreq[i].dispatched
    /\ (hreq'[i].pc = "called" /\ hreq[i].pc # "called") => Free(i)
    /\ (hreq[i].pc \in {"load", "infer", "persist"} /\ hreq'[i].pc = "done"
          /\ hreq'[i].resp.status # 200) =>
         storage' = storage

\* C14: nothing is retried: a POST /api/chat invokes the Durable Object once
\* at most, a request of the Durable Object calls storage.get, env.AI.run and
\* storage.put once each at most, and a request that failed makes no call
\* after the failure.
C14_NoRetries == []C14_Counts /\ [][C14_Step]_vars

\* the storage write of a request of the Worker failed after one read and one
\* inference call
C14_Witness ==
  \E i \in Slots :
    /\ rreq[i].pc = "done" /\ rreq[i].dispatched = 1 /\ rreq[i].resp.status = 500
    /\ hreq[i].reads = 1 /\ hreq[i].infers = 1 /\ hreq[i].writes = 1
    /\ hreq[i].resp = Unhandled

\* the answer to a failure of storage.get or storage.put, and what it leaves
C15_Step ==
  \A i \in Slots :
    LET failed == \/ hreq[i].pc = "load" /\ hreq'[i].pc = "done"
                  \/ /\ hreq[i].pc = "persist" /\ hreq'[i].pc = "done"
                     /\ hreq'[i].resp.status # 200
        r == hreq'[i].resp
    IN failed =>
         /\ r.status = 500
         /\ r.ct = "json" /\ r.valid /\ ~r.isNull
         /\ r.hasError /\ r.error = "Unhandled DO exception"
         /\ ~r.hasReply /\ r.reply = <<>>
         /\ storage' = storage
         /\ log' = log

\* what the caller of a Durable Object that answered 500 receives
C15_Answer ==
  \A i \in Slots :
    (Answered(i) /\ hreq[i].resp.status = 500) =>
      /\ hreq[i].resp = DoError(500, "Unhandled DO exception")
      /\ rreq[i].pc = "done" =>
           /\ rreq[i].resp.status = 500
           /\ rreq[i].resp.kind = "json"
           /\ rreq[i].resp.error = "Unhandled DO exception"
           /\ ~rreq[i].resp.hasReply
           /\ rreq[i].resp.cookie = NoSetCookie

\* C15: a failure inside ChatRoom.fetch (storage.get or storage.put throwing)
\* is answered 500 with an error payload and does not propagate; when
\* storage.put fails the stored history is what it was and the reply that was
\* generated is not returned.
C15_FailureIs500 == []C15_Answer /\ [][C15_Step]_vars

\* storage.put failed after a reply was generated on a full history: the
\* stored history is the one the request loaded
C15_Witness ==
  \E i \in Slots :
    /\ Answered(i) /\ hreq[i].writes = 1 /\ hreq[i].resp.status = 500
    /\ hreq[i].reply = <<"b">>
    /\ ~hreq[i].resp.hasReply
    /\ Len(hreq[i].loaded) = 20
    /\ Hist(hreq[i].session) = hreq[i].loaded
    /\ Hist(hreq[i].session) # PutValue(hreq[i])

IsHealth(r) == r.method = "GET" /\ r.path = "/health"
IsRoot(r) == r.method = "GET" /\ r.path = "/"

\* a request of the Worker that is not POST /api/chat
C16_Answer ==
  \A i \in Slots :
    (rreq[i].pc # "idle" /\ ~IsChat(rreq[i])) =>
      /\ rreq[i].pc = "done"
      /\ rreq[i].dispatched = 0
      /\ hreq[i] = IdleH
      /\ (~IsHealth(rreq[i]) /\ ~IsRoot(rreq[i])) =>
           /\ rreq[i].resp.status = 404
           /\ rreq[i].resp.kind = "text"
           /\ rreq[i].resp.cookie = NoSetCookie
      /\ rreq[i].resp.status = 404 => (~IsHealth(rreq[i]) /\ ~IsRoot(rreq[i]))

\* the steps of such a request: its arrival (the handler runs to its return)
\* and the departure of its response
C16_Step ==
  \A i \in Slots :
    (rreq'[i] # rreq[i] /\ (IF rreq[i].pc = "idle" THEN ~IsChat(rreq'[i])
                                                  ELSE ~IsChat(rreq[i]))) =>
      /\ storage' = storage
      /\ log' = log
      /\ hreq' = hreq

\* C16: GET /health and GET / invoke no Durable Object, no inference and no
\* storage and leave every stored history as it is; a request other than GET
\* /health, GET / and POST /api/chat is answered 404, with no effect either.
C16_NoEffects == []C16_Answer /\ [][C16_Step]_vars

\* a request was answered 404 while a chat request of the known session awaits
\* its storage write: the stored history is still the one that request loaded
C16_Witness ==
  \E i, j \in Slots :
    /\ rreq[i].pc = "done" /\ rreq[i].method = "POST" /\ rreq[i].path = "/other"
    /\ rreq[i].resp.status = 404
    /\ hreq[i].pc = "idle"
    /\ hreq[j].pc = "persist"
    /\ Hist(hreq[j].session) = hreq[j].loaded
    /\ Len(hreq[j].loaded) = 20

\* C17: the list every inference call receives starts with the system
\* message, followed by the loaded history with the user turn of the request
\* appended and cut to its last 20 entries: 21 messages at most, the last one
\* the user turn of the request.
C17_InferenceInput ==
  \A i \in Slots :
    hreq[i].infers = 1 =>
      LET m == hreq[i].messages
      IN /\ Len(m) >= 2 /\ Len(m) <= MAX_HISTORY + 1
         /\ m[1] = [role |-> "system", content |-> SYSTEM_PROMPT]
         /\ Tail(m) = LastN(hreq[i].loaded \o <<User(hreq[i].message)>>, 20)
         /\ m[Len(m)] = User(hreq[i].message)
         /\ hreq[i].message # <<>>

\* an inference call is in progress on a full history: the oldest entry was
\* dropped and 21 messages were sent
C17_Witness ==
  \E i \in Slots :
    /\ hreq[i].pc = "infer"
    /\ Len(hreq[i].loaded) = 20
    /\ Len(hreq[i].messages) = 21
    /\ hreq[i].messages[2] = hreq[i].loaded[2]
    /\ hreq[i].messages[21] = User(<<"b">>)

\* the role of the k-th entry of a history that starts with a user turn
RoleAt(k) == IF k % 2 = 1 THEN "user" ELSE "assistant"

\* C18: with the requests of each Durable Object handled one at a time, every
\* stored history has an even, positive length and alternates user and
\* assistant entries, from a user entry to an assistant entry: the truncation
\* drops whole exchanges only.
C18_Alternates ==
  \A s \in Ids :
    storage[s].present =>
      /\ Len(Hist(s)) > 0
      /\ Len(Hist(s)) % 2 = 0
      /\ \A k \in 1..Len(Hist(s)) : Hist(s)[k].role = RoleAt(k)

\* an exchange was persisted on a full history: the oldest exchange is gone
\* and the history starts with the user turn that followed it
C18_Witness ==
  \E i \in Slots :
    LET s == hreq[i].session
    IN /\ Answered(i) /\ hreq[i].resp.status = 200
       /\ Len(hreq[i].loaded) = 20
       /\ Len(Hist(s)) = 20
       /\ Hist(s)[1] = hreq[i].loaded[3]
       /\ Hist(s)[1].role = "user"
       /\ Hist(s)[20] = Assistant(hreq[i].resp.reply)

\* the stored history of session s ends with the exchange of m and r
EndsWith(s, m, r) ==
  /\ storage[s].present
  /\ Len(Hist(s)) >= 2
  /\ Hist(s)[Len(Hist(s)) - 1] = User(m)
  /\ Hist(s)[Len(Hist(s))] = Assistant(r)

\* when the 200 of a request is produced, by the Durable Object and then by
\* the Worker, its exchange is the end of the stored history
C19_Answered ==
  \A i \in Slots :
    /\ (Answered(i) /\ hreq[i].resp.status = 200) =>
         /\ hreq[i].writes = 1
         /\ hreq[i].resp.hasReply
         /\ EndsWith(hreq[i].session, hreq[i].message, hreq[i].resp.reply)
    /\ (rreq[i].pc = "done" /\ IsChat(rreq[i]) /\ rreq[i].resp.status = 200) =>
         /\ Answered(i) /\ hreq[i].resp.status = 200
         /\ rreq[i].resp.reply = hreq[i].resp.reply
         /\ EndsWith(rreq[i].sessionId, rreq[i].message, rreq[i].resp.reply)

\* the stored history of a session changes in the step that answers 200 only
C19_Step ==
  \A s \in Ids :
    storage'[s] # storage[s] =>
      \E i \in Slots :
        /\ hreq[i].session = s
        /\ hreq[i].pc = "persist"
        /\ hreq'[i].pc = "done"
        /\ hreq'[i].resp.status = 200

\* C19: when a chat request is answered 200 with reply R its exchange has been
\* persisted: the stored history of its session ends with the user turn of
\* the request and {assistant, R}; and a stored history changes only in a
\* request the Durable Object answers 200.
C19_PersistedBeforeAnswer == []C19_Answered /\ [][C19_Step]_vars

\* the Worker answered 200 with the trimmed reply "b" to a request of the
\* known session, whose history was full
C19_Witness ==
  \E i \in Slots :
    /\ rreq[i].pc = "done" /\ IsChat(rreq[i]) /\ rreq[i].resp.status = 200
    /\ rreq[i].cookie.kind = "session"
    /\ hreq[i].aiResult.response = <<" ", "b", " ">>
    /\ rreq[i].resp.reply = <<"b">>
    /\ Len(hreq[i].loaded) = 20
    /\ Hist(rreq[i].sessionId)[20] = Assistant(<<"b">>)
    /\ Hist(rreq[i].sessionId)[19] = User(rreq[i].message)

\* an error response made by Response.json({ error, ... })
JsonError(kind, error) == kind = "json" /\ error # ""

\* C20: every request of the Worker and of the Durable Object ends with one
\* response of the program, no handler ends without one, and every error
\* response other than the 404 carries a JSON object with an error field.
C20_AlwaysAnswered ==
  \A i \in Slots :
    /\ rreq[i].pc = "done" =>
         /\ rreq[i].resp.kind \in {"json", "html", "text"}
         /\ rreq[i].resp.status \notin {200, 404} =>
              JsonError(rreq[i].resp.kind, rreq[i].resp.error)
    /\ (Answered(i) /\ hreq[i].origin # "stub") =>
         /\ hreq[i].resp.ct = "json" /\ hreq[i].resp.valid
         /\ hreq[i].resp.status # 200 => hreq[i].resp.hasError

====
